---- MODULE Spec2Model ----
(***************************************************************************)
(* Client synchronisation core of the Pictionary front end:                *)
(*   - GamePage.handleWebSocketMessage (the message dispatcher),           *)
(*   - the countdown driven by window.setInterval,                         *)
(*   - DrawingCanvas (full replay, incremental path, local authoring).     *)
(*                                                                         *)
(* React state is modelled by its latest value (the value the next render  *)
(* will see); what the last committed render handed to closures and to     *)
(* the canvas props (isDrawer, ws) is kept in variables of its own, and    *)
(* Render is the commit that runs the effects.                             *)
(***************************************************************************)
EXTENDS Integers, Sequences, FiniteSets, TLC

-----------------------------------------------------------------------------
(* Bounds of the model *)

MaxSecs == 3
Res == 2
MaxTimers == 2
MaxChat == 1
MaxCoord == 1
MaxSegs == 1
MaxLog == 2
\* longest text typed into the chat input
MaxInput == 2
\* sockets one page opens
MaxSockets == 2
MaxPoints == 3

-----------------------------------------------------------------------------
(* JavaScript values *)

NULL == "null"
None == << >>
Some(v) == <<v>>

\* mutant: the expiry is tested against null instead of for truthiness
TruthyNum_NotNull(o) == o # None

\* ToBoolean for a nullable number (null, undefined and 0 are falsy)
TruthyNum(o) == o # None /\ o[1] # 0
\* ToBoolean for a nullable string (null, undefined and "" are falsy)
TruthyStr(s) == s # NULL /\ s # ""

Max(a, b) == IF a >= b THEN a ELSE b

\* GamePage props
playerId == "p1"
otherId == "p2"

\* DrawingCanvas brush state (useState defaults)
color == "#222"
size == 4

\* setInterval period (1000 ms) in clock units
Period == Res

\* horizon of the wall clock, in clock units
MaxClock == MaxSecs * Res

-----------------------------------------------------------------------------
(* Frames *)

Coords == 0..MaxCoord
Pos == {[x |-> c, y |-> c] : c \in Coords}

DrawPoint(x, y, c, b, a) == [x |-> x, y |-> y, color |-> c, brush_size |-> b, action |-> a]

Frame(t, p) == [type |-> t, payload |-> p]

NoFrame == Frame("none", [none |-> TRUE])

VARIABLES
  gameState,                  \* GameStateContext state (None before the first snapshot)
  gameStateRef,               \* gameStateRef.current
  ws,                         \* GamePage state ws (NULL or the socket)
  chatMessages,
  drawingHistory,
  currentRemoteDrawingPoint,
  wordsToChoose,
  timeLeft,
  timerIntervalRef,           \* timerIntervalRef.current (None or an interval id)
  intervals,                  \* the window's active intervals
  nextTimerId,                \* next id window.setInterval returns
  now,                        \* Date.now(), in clock units (Res per second)
  conn,                       \* readyState of the socket of the connection effect
  mounted,                    \* GamePage is mounted
  needsRender,                \* a state update is waiting for a commit
  historyDirty,               \* drawingHistory was set since the last commit
  pointDirty,                 \* a point was set since the last commit
  canvasMounted,              \* DrawingCanvas is mounted
  isDrawer,                   \* DrawingCanvas prop isDrawer of the last commit
  canvasWs,                   \* ws as seen by the closures of the last commit
  surface,                    \* segments stroked on the canvas, in order
  lastPoint,                  \* DrawingCanvas lastPoint.current
  drawing,                    \* DrawingCanvas state drawing
  shownWords,                 \* words of the WordSelectionModal of the last commit
  observer,                   \* history: the canvas of a remote observer of this drawer
  lastApplied,                \* history: action of the last point the incremental effect applied
  incAnchor,                  \* history: the anchor as the applied incremental points alone set it
  input,                      \* Chat state input (a sequence of characters)
  sockets,                    \* the sockets the connection effect opened, and those it closed whose close event is pending
  arming,                     \* history: the latest arming of the timer
  pointEcho,                  \* history: the buffered point arrived while drawer
  ev                          \* history: the step just taken

pageVars == <<gameState, gameStateRef, ws, chatMessages, drawingHistory,
              currentRemoteDrawingPoint, wordsToChoose, timeLeft>>
timerVars == <<timerIntervalRef, intervals, nextTimerId>>
canvasVars == <<canvasMounted, isDrawer, canvasWs, surface, lastPoint, drawing>>
viewVars == <<shownWords, observer, lastApplied, incAnchor, input, sockets>>
reactVars == <<needsRender, historyDirty, pointDirty>>
vars == <<gameState, gameStateRef, ws, chatMessages, drawingHistory,
          currentRemoteDrawingPoint, wordsToChoose, timeLeft,
          timerIntervalRef, intervals, nextTimerId, now, conn, mounted,
          needsRender, historyDirty, pointDirty,
          canvasMounted, isDrawer, canvasWs, surface, lastPoint, drawing,
          shownWords, observer, lastApplied, incAnchor, input, sockets, arming, pointEcho, ev>>

NoArming == [armed |-> FALSE]

\* no remote observer is followed
NoObserver == [on |-> FALSE, surface |-> << >>, lastPoint |-> None, open |-> FALSE]

\* a remote observer followed from the start of a drawing phase: a blank
\* canvas with no anchor, and no start..end run open on the wire
BlankObserver == [NoObserver EXCEPT !.on = TRUE]

\* the socket the connection effect opened at mount
OneSocket == [opened |-> 1, closing |-> {}]

\* the WebSocket objects, in the order the effect creates them
SocketName(n) == <<"ws1", "ws2", "ws3", "ws4">>[n]

\* what a step saw before it ran
NoPre == [none |-> TRUE]
Pre == [timeLeft |-> timeLeft,
        armed |-> intervals # {},
        state |-> gameState # None,
        point |-> currentRemoteDrawingPoint # None,
        strokes |-> drawingHistory # << >>,
        words |-> wordsToChoose]

Event(k) == [kind |-> k, msg |-> NoFrame, sent |-> << >>, applied |-> None,
             echo |-> FALSE, pre |-> NoPre]

\* the action of the point the incremental effect of a commit applied
AppliedAction(e) == IF e.kind = "render" /\ e.applied # None
                      THEN e.applied[1].action ELSE "none"

\* what a commit found on the canvas
PreRender == [surface |-> surface, lastPoint |-> lastPoint, last |-> lastApplied]

Init ==
  /\ gameState = None
  /\ gameStateRef = None
  /\ ws = "ws1"
  /\ chatMessages = << >>
  /\ drawingHistory = << >>
  /\ currentRemoteDrawingPoint = None
  /\ wordsToChoose = << >>
  /\ timeLeft = 0
  /\ timerIntervalRef = None
  /\ intervals = {}
  /\ nextTimerId = 1
  /\ now = 0
  /\ conn = "open"
  /\ mounted = TRUE
  /\ needsRender = FALSE
  /\ historyDirty = FALSE
  /\ pointDirty = FALSE
  /\ canvasMounted = FALSE
  /\ isDrawer = FALSE
  /\ canvasWs = "ws1"
  /\ surface = << >>
  /\ lastPoint = None
  /\ drawing = FALSE
  /\ shownWords = << >>
  /\ observer = NoObserver
  /\ lastApplied = "none"
  /\ incAnchor = None
  /\ input = << >>
  /\ sockets = OneSocket
  /\ arming = NoArming
  /\ pointEcho = FALSE
  /\ ev = Event("init")

-----------------------------------------------------------------------------
(* Countdown timer (GamePage.tsx 49-69) *)

\* clearInterval(timerIntervalRef.current) under "if (timerIntervalRef.current)"
clearInterval(ref) ==
  IF ref = None THEN intervals ELSE {i \in intervals : i.id # ref[1]}

\* mutant: the second that is running is counted too (floor(...) + 1)
Remaining_Inclusive(expiresAt, t) == Max(0, (expiresAt - t) \div Res + 1)

\* Math.max(0, Math.floor(expiresAt - now)), in seconds
Remaining(expiresAt, t) == Max(0, (expiresAt - t) \div Res)

\* mutant: a new interval is started without clearing the running one
TimerArm_NoClear(expiresAt) ==
  /\ intervals' = intervals \cup
                    {[id |-> nextTimerId, expiresAt |-> expiresAt, due |-> now + Period]}
  /\ timerIntervalRef' = Some(nextTimerId)
  /\ nextTimerId' = nextTimerId + 1
  /\ timeLeft' = timeLeft

\* if (msg.payload.timer_expires_at) { ... window.setInterval(..., 1000) }
TimerArm(expiresAt) ==
  /\ intervals' = clearInterval(timerIntervalRef) \cup
                    {[id |-> nextTimerId, expiresAt |-> expiresAt, due |-> now + Period]}
  /\ timerIntervalRef' = Some(nextTimerId)
  /\ nextTimerId' = nextTimerId + 1
  /\ timeLeft' = timeLeft

\* mutant: the reference is dropped before the interval is cleared
TimerDisarm_NoClear ==
  /\ timeLeft' = 0
  /\ intervals' = clearInterval(None)
  /\ timerIntervalRef' = None
  /\ nextTimerId' = nextTimerId

\* else { setTimeLeft(0); clearInterval; timerIntervalRef.current = null }
TimerDisarm ==
  /\ timeLeft' = 0
  /\ intervals' = clearInterval(timerIntervalRef)
  /\ timerIntervalRef' = None
  /\ nextTimerId' = nextTimerId

\* mutant: the callback never clears its interval at zero
TickCallback_NoStop(i) ==
  LET remaining == Remaining(i.expiresAt, now) IN
  /\ timeLeft' = remaining
  /\ needsRender' = (needsRender \/ remaining # timeLeft)
  /\ intervals' = (intervals \ {i}) \cup {[i EXCEPT !.due = now + Period]}
  /\ timerIntervalRef' = timerIntervalRef
  /\ nextTimerId' = nextTimerId

\* the setInterval callback of the arming with identifier i.id
TickCallback(i) ==
  LET remaining == Remaining(i.expiresAt, now) IN
  /\ timeLeft' = remaining
  /\ needsRender' = (needsRender \/ remaining # timeLeft)
  /\ IF remaining = 0 /\ timerIntervalRef # None
       THEN /\ intervals' = clearInterval(timerIntervalRef)
            /\ timerIntervalRef' = None
       ELSE /\ intervals' = (intervals \ {i}) \cup {[i EXCEPT !.due = now + Period]}
            /\ timerIntervalRef' = timerIntervalRef
  /\ nextTimerId' = nextTimerId

-----------------------------------------------------------------------------
(* Message dispatcher (GamePage.tsx 39-122) *)

ChatEntry(sender, message, flag) ==
  [sender |-> sender, message |-> message, isCorrectGuess |-> flag]

\* mutant: the snapshot handler forgets setCurrentRemoteDrawingPoint(null)
HandleGameStateUpdate_KeepsPoint(payload) ==
  /\ gameState' = Some(payload)
  /\ drawingHistory' = IF payload.drawing_strokes = None THEN << >>
                       ELSE payload.drawing_strokes[1]
  /\ currentRemoteDrawingPoint' = currentRemoteDrawingPoint
  /\ IF TruthyNum(payload.timer_expires_at)
       THEN TimerArm(payload.timer_expires_at[1])
       ELSE TimerDisarm
  /\ needsRender' = TRUE
  /\ historyDirty' = TRUE
  /\ pointDirty' = pointDirty
  /\ UNCHANGED <<gameStateRef, ws, chatMessages, wordsToChoose>>

\* mutant: a snapshot whose strokes equal the current history does not count
\* as a new history for the replay effect
HandleGameStateUpdate_ByContent(payload) ==
  /\ gameState' = Some(payload)
  /\ drawingHistory' = IF payload.drawing_strokes = None THEN << >>
                       ELSE payload.drawing_strokes[1]
  /\ currentRemoteDrawingPoint' = None
  /\ IF TruthyNum(payload.timer_expires_at)
       THEN TimerArm(payload.timer_expires_at[1])
       ELSE TimerDisarm
  /\ needsRender' = TRUE
  /\ historyDirty' = (historyDirty \/ drawingHistory' # drawingHistory)
  /\ pointDirty' = FALSE
  /\ UNCHANGED <<gameStateRef, ws, chatMessages, wordsToChoose>>

\* case "GAME_STATE_UPDATE" (GamePage.tsx 42-70)
HandleGameStateUpdate(payload) ==
  /\ gameState' = Some(payload)
  /\ drawingHistory' = IF payload.drawing_strokes = None THEN << >>
                       ELSE payload.drawing_strokes[1]
  /\ currentRemoteDrawingPoint' = None
  /\ IF TruthyNum(payload.timer_expires_at)
       THEN TimerArm(payload.timer_expires_at[1])
       ELSE TimerDisarm
  /\ needsRender' = TRUE
  /\ historyDirty' = TRUE
  /\ pointDirty' = FALSE
  /\ UNCHANGED <<gameStateRef, ws, chatMessages, wordsToChoose>>

\* mutant: a missing isCorrectGuess counts as a correct guess
HandleChatMessage_DefaultTrue(payload) ==
  /\ chatMessages' = Append(chatMessages,
       ChatEntry(payload.sender, <<payload.message>>,
                 IF payload.isCorrectGuess = None THEN TRUE
                 ELSE payload.isCorrectGuess[1]))
  /\ needsRender' = TRUE
  /\ UNCHANGED <<gameState, gameStateRef, ws, drawingHistory,
                 currentRemoteDrawingPoint, wordsToChoose, timeLeft,
                 timerVars, historyDirty, pointDirty>>

HandleChatMessage(payload) ==
  /\ chatMessages' = Append(chatMessages,
       ChatEntry(payload.sender, <<payload.message>>,
                 IF payload.isCorrectGuess = None THEN FALSE
                 ELSE payload.isCorrectGuess[1]))
  /\ needsRender' = TRUE
  /\ UNCHANGED <<gameState, gameStateRef, ws, drawingHistory,
                 currentRemoteDrawingPoint, wordsToChoose, timeLeft,
                 timerVars, historyDirty, pointDirty>>

\* mutant: the point is also recorded in the stroke history
HandleDrawingUpdate_Records(payload) ==
  /\ currentRemoteDrawingPoint' = Some(payload)
  /\ drawingHistory' = Append(drawingHistory, <<payload>>)
  /\ needsRender' = TRUE
  /\ pointDirty' = TRUE
  /\ historyDirty' = TRUE
  /\ UNCHANGED <<gameState, gameStateRef, ws, chatMessages,
                 wordsToChoose, timeLeft, timerVars>>

HandleDrawingUpdate(payload) ==
  /\ currentRemoteDrawingPoint' = Some(payload)
  /\ needsRender' = TRUE
  /\ pointDirty' = TRUE
  /\ UNCHANGED <<gameState, gameStateRef, ws, chatMessages, drawingHistory,
                 wordsToChoose, timeLeft, timerVars, historyDirty>>

\* mutant: the offer is accepted whoever the named drawer is
HandleWordToDraw_NoCheck(payload) ==
  /\ wordsToChoose' = payload.words
  /\ needsRender' = TRUE
  /\ UNCHANGED <<gameState, gameStateRef, ws, chatMessages, drawingHistory,
                 currentRemoteDrawingPoint, timeLeft, timerVars,
                 historyDirty, pointDirty>>

HandleWordToDraw(payload) ==
  IF playerId = payload.current_drawer_id
    THEN /\ wordsToChoose' = payload.words
         /\ needsRender' = TRUE
         /\ UNCHANGED <<gameState, gameStateRef, ws, chatMessages, drawingHistory,
                        currentRemoteDrawingPoint, timeLeft, timerVars,
                        historyDirty, pointDirty>>
    ELSE UNCHANGED <<pageVars, timerVars, reactVars>>

\* mutant: the final state is merged into the old one (only the drawer is taken)
HandleGameOver_Patches(payload) ==
  /\ gameState' = IF gameState = None THEN Some(payload)
                   ELSE Some([gameState[1] EXCEPT
                                !.current_drawer_id = payload.current_drawer_id])
  /\ chatMessages' = Append(chatMessages,
       ChatEntry("Game",
                 <<"GAME OVER! Winner: ",
                   IF TruthyStr(payload.winner_name) THEN payload.winner_name
                   ELSE "No one (tie)">>,
                 TRUE))
  /\ needsRender' = TRUE
  /\ UNCHANGED <<gameStateRef, ws, drawingHistory, currentRemoteDrawingPoint,
                 wordsToChoose, timeLeft, timerVars, historyDirty, pointDirty>>

\* mutant: the final state also runs the disarm branch of the timer
HandleGameOver_StopsTimer(payload) ==
  /\ gameState' = Some(payload)
  /\ chatMessages' = Append(chatMessages,
       ChatEntry("Game",
                 <<"GAME OVER! Winner: ",
                   IF TruthyStr(payload.winner_name) THEN payload.winner_name
                   ELSE "No one (tie)">>,
                 TRUE))
  /\ TimerDisarm
  /\ needsRender' = TRUE
  /\ UNCHANGED <<gameStateRef, ws, drawingHistory, currentRemoteDrawingPoint,
                 wordsToChoose, historyDirty, pointDirty>>

\* case "GAME_OVER" (GamePage.tsx 92-105)
HandleGameOver(payload) ==
  /\ gameState' = Some(payload)
  /\ chatMessages' = Append(chatMessages,
       ChatEntry("Game",
                 <<"GAME OVER! Winner: ",
                   IF TruthyStr(payload.winner_name) THEN payload.winner_name
                   ELSE "No one (tie)">>,
                 TRUE))
  /\ needsRender' = TRUE
  /\ UNCHANGED <<gameStateRef, ws, drawingHistory, currentRemoteDrawingPoint,
                 wordsToChoose, timeLeft, timerVars, historyDirty, pointDirty>>

\* mutant: an error also drops the buffered point
HandleError_DropsPoint(payload) ==
  /\ chatMessages' = Append(chatMessages,
       ChatEntry("System", <<"Error: ", payload.message>>, FALSE))
  /\ currentRemoteDrawingPoint' = None
  /\ needsRender' = TRUE
  /\ UNCHANGED <<gameState, gameStateRef, ws, drawingHistory,
                 wordsToChoose, timeLeft,
                 timerVars, historyDirty, pointDirty>>

HandleError(payload) ==
  /\ chatMessages' = Append(chatMessages,
       ChatEntry("System", <<"Error: ", payload.message>>, FALSE))
  /\ needsRender' = TRUE
  /\ UNCHANGED <<gameState, gameStateRef, ws, drawingHistory,
                 currentRemoteDrawingPoint, wordsToChoose, timeLeft,
                 timerVars, historyDirty, pointDirty>>

\* mutant: an unknown type is reported in the chat like an ERROR frame
handleWebSocketMessage_ReportsUnknown(msg) ==
  CASE msg.type = "GAME_STATE_UPDATE" -> HandleGameStateUpdate(msg.payload)
    [] msg.type = "CHAT_MESSAGE"      -> HandleChatMessage(msg.payload)
    [] msg.type = "DRAWING_UPDATE"    -> HandleDrawingUpdate(msg.payload)
    [] msg.type = "WORD_TO_DRAW"      -> HandleWordToDraw(msg.payload)
    [] msg.type = "GAME_OVER"         -> HandleGameOver(msg.payload)
    [] msg.type = "ERROR"             -> HandleError(msg.payload)
    [] OTHER                          -> HandleError([message |-> msg.type])

handleWebSocketMessage(msg) ==
  CASE msg.type = "GAME_STATE_UPDATE" -> HandleGameStateUpdate(msg.payload)
    [] msg.type = "CHAT_MESSAGE"      -> HandleChatMessage(msg.payload)
    [] msg.type = "DRAWING_UPDATE"    -> HandleDrawingUpdate(msg.payload)
    [] msg.type = "WORD_TO_DRAW"      -> HandleWordToDraw(msg.payload)
    [] msg.type = "GAME_OVER"         -> HandleGameOver(msg.payload)
    [] msg.type = "ERROR"             -> HandleError(msg.payload)
    [] OTHER                          -> UNCHANGED <<pageVars, timerVars, reactVars>>

-----------------------------------------------------------------------------
(* DrawingCanvas (DrawingCanvas.tsx) *)

XY(data) == [x |-> data.x, y |-> data.y]

Segment(from, data) ==
  [from |-> from, to |-> XY(data), color |-> data.color, brush_size |-> data.brush_size]

\* drawSegment(ctx, data, startPoint): what it strokes on the canvas
drawSegment(surf, data, startPoint) ==
  IF data.action = "start" THEN surf
  ELSE IF data.action = "draw" /\ startPoint # None
         THEN Append(surf, Segment(startPoint[1], data))
         ELSE surf

\* mutant: replay keeps the anchor of the start point for the whole stroke
RECURSIVE ReplayStroke_KeepsAnchor(_, _, _, _)
ReplayStroke_KeepsAnchor(stroke, k, prevPoint, surf) ==
  IF k > Len(stroke) THEN surf
  ELSE LET data == stroke[k] IN
       IF data.action = "start"
         THEN ReplayStroke_KeepsAnchor(stroke, k + 1, Some(XY(data)), surf)
       ELSE IF data.action = "draw" /\ prevPoint # None
         THEN ReplayStroke_KeepsAnchor(stroke, k + 1, prevPoint,
                                       Append(surf, Segment(prevPoint[1], data)))
         ELSE ReplayStroke_KeepsAnchor(stroke, k + 1, prevPoint, surf)

\* stroke.forEach of redrawAll, from index k with running anchor prevPoint
RECURSIVE ReplayStroke(_, _, _, _)
ReplayStroke(stroke, k, prevPoint, surf) ==
  IF k > Len(stroke) THEN surf
  ELSE LET data == stroke[k] IN
       IF data.action = "start"
         THEN ReplayStroke(stroke, k + 1, Some(XY(data)), drawSegment(surf, data, None))
       ELSE IF data.action = "draw" /\ prevPoint # None
         THEN ReplayStroke(stroke, k + 1, Some(XY(data)), drawSegment(surf, data, prevPoint))
         ELSE ReplayStroke(stroke, k + 1, prevPoint, surf)

\* mutant: prevPoint is declared outside the loop over the strokes, so a
\* stroke starts with the last point of the stroke before it as its anchor
RECURSIVE ReplayStrokes_CarriesAnchor(_, _, _)
ReplayStrokes_CarriesAnchor(strokes, k, surf) ==
  IF k > Len(strokes) THEN surf
  ELSE LET carried == IF k > 1 /\ Len(strokes[k - 1]) > 0
                        THEN Some(XY(strokes[k - 1][Len(strokes[k - 1])]))
                        ELSE None
       IN ReplayStrokes_CarriesAnchor(strokes, k + 1,
                                      ReplayStroke(strokes[k], 1, carried, surf))

\* remoteDrawingStrokes.forEach of redrawAll, from index k
RECURSIVE ReplayStrokes(_, _, _)
ReplayStrokes(strokes, k, surf) ==
  IF k > Len(strokes) THEN surf
  ELSE ReplayStrokes(strokes, k + 1, ReplayStroke(strokes[k], 1, None, surf))

\* mutant: redrawAll without clearRect
redrawAll_NoClear(strokes) == ReplayStrokes(strokes, 1, surface)

\* redrawAll: clearRect, then every stroke in order
redrawAll(strokes) == ReplayStrokes(strokes, 1, << >>)

\* mutant: the incremental path does not advance lastPoint on "draw"
IncrementalApply_KeepsAnchor(surf, lp, data) ==
  IF data.action = "start"
    THEN [surface |-> surf, lastPoint |-> Some(XY(data))]
  ELSE IF data.action = "draw" /\ lp # None
    THEN [surface |-> Append(surf, Segment(lp[1], data)), lastPoint |-> lp]
  ELSE IF data.action = "end"
    THEN [surface |-> surf, lastPoint |-> None]
  ELSE IF data.action = "clear"
    THEN [surface |-> << >>, lastPoint |-> None]
    ELSE [surface |-> surf, lastPoint |-> lp]

\* mutant: a "draw" that finds no anchor takes its own position as the anchor
IncrementalApply_DrawAnchors(surf, lp, data) ==
  IF data.action = "start"
    THEN [surface |-> surf, lastPoint |-> Some(XY(data))]
  ELSE IF data.action = "draw"
    THEN [surface |-> IF lp # None THEN Append(surf, Segment(lp[1], data)) ELSE surf,
          lastPoint |-> Some(XY(data))]
  ELSE IF data.action = "end"
    THEN [surface |-> surf, lastPoint |-> None]
  ELSE IF data.action = "clear"
    THEN [surface |-> << >>, lastPoint |-> None]
    ELSE [surface |-> surf, lastPoint |-> lp]

\* mutant: "clear" wipes the canvas but keeps the anchor
IncrementalApply_ClearKeepsAnchor(surf, lp, data) ==
  IF data.action = "start"
    THEN [surface |-> surf, lastPoint |-> Some(XY(data))]
  ELSE IF data.action = "draw" /\ lp # None
    THEN [surface |-> Append(surf, Segment(lp[1], data)), lastPoint |-> Some(XY(data))]
  ELSE IF data.action = "end"
    THEN [surface |-> surf, lastPoint |-> None]
  ELSE IF data.action = "clear"
    THEN [surface |-> << >>, lastPoint |-> lp]
    ELSE [surface |-> surf, lastPoint |-> lp]

\* body of the incremental effect once "currentDrawingData && !isDrawer" holds
IncrementalApply(surf, lp, data) ==
  IF data.action = "start"
    THEN [surface |-> drawSegment(surf, data, None), lastPoint |-> Some(XY(data))]
  ELSE IF data.action = "draw" /\ lp # None
    THEN [surface |-> drawSegment(surf, data, lp), lastPoint |-> Some(XY(data))]
  ELSE IF data.action = "end"
    THEN [surface |-> surf, lastPoint |-> None]
  ELSE IF data.action = "clear"
    THEN [surface |-> << >>, lastPoint |-> None]
    ELSE [surface |-> surf, lastPoint |-> lp]

\* the incremental effect run for each point of a sequence in turn, from index k
RECURSIVE IncrementalPath(_, _, _, _)
IncrementalPath(points, k, surf, lp) ==
  IF k > Len(points) THEN [surface |-> surf, lastPoint |-> lp]
  ELSE LET r == IncrementalApply(surf, lp, points[k]) IN
       IncrementalPath(points, k + 1, r.surface, r.lastPoint)

\* guard of the incremental effect
IncrementalGuard(data, drawer) == data # None /\ ~drawer

\* isDrawingPhaseActive of GamePage
isDrawingPhaseActive(gs) ==
  gs.is_game_started /\ TruthyStr(gs.secret_word) /\ TruthyStr(gs.current_drawer_id)

\* mutant: the isDrawer prop looks at the drawer id alone
IsDrawerProp_AnyPhase(ref, gs) ==
  /\ ref # None
  /\ ref[1].current_drawer_id = playerId

\* the isDrawer prop GamePage computes for DrawingCanvas
IsDrawerProp(ref, gs) ==
  /\ ref # None
  /\ ref[1].current_drawer_id = playerId
  /\ isDrawingPhaseActive(gs)

\* sendDrawingData: the frames it puts on the socket
sendDrawingData(data) ==
  IF canvasWs # NULL THEN <<Frame("DRAWING_DATA", data)>> ELSE << >>

\* a remote observer of this drawer: the snapshot every participant receives
\* is replayed on its canvas (DrawingCanvas.tsx 50-80)
ObserverReplay(payload) ==
  redrawAll(IF payload.drawing_strokes = None THEN << >>
            ELSE payload.drawing_strokes[1])

\* a remote observer of this drawer: a DRAWING_DATA frame that leaves on an
\* open socket reaches it as a DRAWING_UPDATE and goes through its
\* incremental effect (DrawingCanvas.tsx 82-109); open tells whether the
\* frames sent so far end inside a start..end run
Observed(data) ==
  IF ~observer.on \/ sendDrawingData(data) = << >> \/ conn # "open" THEN observer
  ELSE LET r == IncrementalApply(observer.surface, observer.lastPoint, data) IN
       [on |-> TRUE, surface |-> r.surface, lastPoint |-> r.lastPoint,
        open |-> IF data.action = "start" THEN TRUE
                 ELSE IF data.action = "end" THEN FALSE
                 ELSE observer.open]

-----------------------------------------------------------------------------
(* Steps of the page *)

IsArming(msg) ==
  msg.type = "GAME_STATE_UPDATE" /\ TruthyNum(msg.payload.timer_expires_at)

AppendsChat(msg) == msg.type \in {"CHAT_MESSAGE", "GAME_OVER", "ERROR"}

\* ws.onmessage: one inbound frame is parsed and handed to the dispatcher
Deliver(msg) ==
  /\ mounted
  /\ conn = "open"
  /\ handleWebSocketMessage(msg)
  /\ arming' = IF msg.type # "GAME_STATE_UPDATE" THEN arming
               ELSE IF IsArming(msg)
                 THEN [armed |-> TRUE, id |-> nextTimerId,
                       expiresAt |-> msg.payload.timer_expires_at[1],
                       at |-> now, fired |-> 0, prev |-> None, last |-> None,
                       afterZero |-> FALSE,
                       superseded |-> IF arming.armed /\ intervals # {}
                                        THEN Some(arming.expiresAt) ELSE None]
                 ELSE NoArming
  /\ pointEcho' = IF msg.type = "DRAWING_UPDATE"
                    THEN /\ gameState # None
                         /\ gameState[1].current_drawer_id = playerId
                         /\ isDrawingPhaseActive(gameState[1])
                         /\ isDrawer
                         /\ ~needsRender
                    ELSE IF msg.type = "GAME_STATE_UPDATE" THEN FALSE
                    ELSE pointEcho
  /\ observer' = IF observer.on /\ msg.type = "GAME_STATE_UPDATE"
                   THEN [observer EXCEPT !.surface = ObserverReplay(msg.payload)]
                   ELSE observer
  /\ ev' = [Event("recv") EXCEPT !.msg = msg, !.pre = Pre]
  /\ UNCHANGED <<now, conn, mounted, canvasVars, shownWords, lastApplied, incAnchor, input, sockets>>

\* a delivery within the bounds of the model
Receive(msg) ==
  /\ Len(surface) < MaxSegs
  /\ IsArming(msg) => nextTimerId <= MaxTimers
  /\ AppendsChat(msg) => Len(chatMessages) < MaxChat
  /\ Deliver(msg)

\* a delivery within the bound of the chat log alone
ReceiveLog(msg) ==
  /\ IsArming(msg) => nextTimerId <= MaxTimers
  /\ AppendsChat(msg) => Len(chatMessages) < MaxLog
  /\ Deliver(msg)

\* a commit: GamePage and DrawingCanvas re-render, then the effects run
\* (DrawingCanvas: replay effect, incremental effect; GamePage: gameStateRef)
Render ==
  /\ mounted
  /\ needsRender
  /\ needsRender' = FALSE
  /\ historyDirty' = FALSE
  /\ pointDirty' = FALSE
  /\ canvasWs' = ws
  /\ gameStateRef' = gameState
  /\ shownWords' = (IF gameState = None THEN << >> ELSE wordsToChoose)
  /\ IF gameState = None
       THEN /\ UNCHANGED <<canvasMounted, isDrawer, surface, lastPoint, drawing>>
            /\ ev' = [Event("render") EXCEPT !.pre = PreRender]
       ELSE LET drawer == IsDrawerProp(gameStateRef, gameState[1])
                mountNow == ~canvasMounted
                lp0 == IF mountNow THEN None ELSE lastPoint
                s1 == IF mountNow \/ historyDirty THEN redrawAll(drawingHistory)
                      ELSE surface
                runInc == mountNow \/ pointDirty \/ drawer # isDrawer
                applies == runInc /\ IncrementalGuard(currentRemoteDrawingPoint, drawer)
                res == IF applies
                         THEN IncrementalApply(s1, lp0, currentRemoteDrawingPoint[1])
                         ELSE [surface |-> s1, lastPoint |-> lp0]
            IN /\ canvasMounted' = TRUE
               /\ isDrawer' = drawer
               /\ surface' = res.surface
               /\ lastPoint' = res.lastPoint
               /\ drawing' = (IF mountNow THEN FALSE ELSE drawing)
               /\ ev' = [Event("render") EXCEPT
                           !.applied = IF applies THEN currentRemoteDrawingPoint ELSE None,
                           !.echo = (applies /\ pointEcho),
                           !.pre = PreRender]
  /\ lastApplied' = (IF ev'.applied = None THEN lastApplied ELSE ev'.applied[1].action)
  /\ incAnchor' = (IF ev'.applied = None THEN incAnchor
                   ELSE IncrementalApply(<< >>, incAnchor, ev'.applied[1]).lastPoint)
  /\ UNCHANGED <<gameState, ws, chatMessages, drawingHistory,
                 currentRemoteDrawingPoint, wordsToChoose, timeLeft,
                 timerVars, now, conn, mounted, arming, pointEcho, observer, input, sockets>>

\* an interval of the window fires
Tick ==
  \E i \in intervals :
    /\ now >= i.due
    /\ TickCallback(i)
    /\ arming' = IF arming.armed /\ arming.id = i.id
                   THEN [arming EXCEPT !.fired = @ + 1,
                                       !.prev = arming.last,
                                       !.last = Some(timeLeft'),
                                       !.afterZero = (@ \/ arming.last = Some(0))]
                   ELSE arming
    /\ ev' = [Event("tick") EXCEPT !.pre = Pre]
    /\ UNCHANGED <<gameState, gameStateRef, ws, chatMessages, drawingHistory,
                   currentRemoteDrawingPoint, wordsToChoose, now, conn, mounted,
                   historyDirty, pointDirty, canvasVars, pointEcho, viewVars>>

\* the wall clock moves on
AdvanceTime ==
  /\ now < MaxClock
  /\ now' = now + 1
  /\ ev' = Event("time")
  /\ UNCHANGED <<pageVars, timerVars, conn, mounted, reactVars, canvasVars,
                 arming, pointEcho, viewVars>>

\* mutant: the closure notice replaces the chat log
Closed_ResetsLog ==
  /\ mounted
  /\ conn = "open"
  /\ conn' = "closed"
  /\ ws' = NULL
  /\ chatMessages' =
       <<ChatEntry("System", <<"Disconnected from game. Please refresh or try again.">>,
                   FALSE)>>
  /\ needsRender' = TRUE
  /\ ev' = [Event("close") EXCEPT !.pre = Pre]
  /\ UNCHANGED <<gameState, gameStateRef, drawingHistory, currentRemoteDrawingPoint,
                 wordsToChoose, timeLeft, timerVars, now, mounted,
                 historyDirty, pointDirty, canvasVars, arming, pointEcho, viewVars>>

\* mutant: the closure notice is appended but the handle is kept
Closed_KeepsHandle ==
  /\ mounted
  /\ conn = "open"
  /\ conn' = "closed"
  /\ ws' = ws
  /\ chatMessages' = Append(chatMessages,
       ChatEntry("System", <<"Disconnected from game. Please refresh or try again.">>,
                 FALSE))
  /\ needsRender' = TRUE
  /\ ev' = [Event("close") EXCEPT !.pre = Pre]
  /\ UNCHANGED <<gameState, gameStateRef, drawingHistory, currentRemoteDrawingPoint,
                 wordsToChoose, timeLeft, timerVars, now, mounted,
                 historyDirty, pointDirty, canvasVars, arming, pointEcho, viewVars>>

\* ws.onclose: the transport reports closure (GamePage.tsx 131-143)
Closed ==
  /\ mounted
  /\ conn = "open"
  /\ conn' = "closed"
  /\ ws' = NULL
  /\ chatMessages' = Append(chatMessages,
       ChatEntry("System", <<"Disconnected from game. Please refresh or try again.">>,
                 FALSE))
  /\ needsRender' = TRUE
  /\ ev' = [Event("close") EXCEPT !.pre = Pre]
  /\ UNCHANGED <<gameState, gameStateRef, drawingHistory, currentRemoteDrawingPoint,
                 wordsToChoose, timeLeft, timerVars, now, mounted,
                 historyDirty, pointDirty, canvasVars, arming, pointEcho, viewVars>>

OnClose == Len(chatMessages) < MaxChat /\ Closed

OnCloseLog == Len(chatMessages) < MaxLog /\ Closed

\* mutant: the teardown closes the transport and leaves the interval
Cleanup_KeepsTimer ==
  /\ mounted
  /\ mounted' = FALSE
  /\ conn' = "closed"
  /\ intervals' = intervals
  /\ ev' = [Event("cleanup") EXCEPT !.pre = Pre]
  /\ UNCHANGED <<pageVars, timerIntervalRef, nextTimerId, now, reactVars,
                 canvasVars, arming, pointEcho, viewVars>>

\* cleanup of the connection effect (GamePage.tsx 147-152): teardown
Cleanup ==
  /\ mounted
  /\ mounted' = FALSE
  /\ conn' = "closed"
  /\ intervals' = clearInterval(timerIntervalRef)
  /\ ev' = [Event("cleanup") EXCEPT !.pre = Pre]
  /\ UNCHANGED <<pageVars, timerIntervalRef, nextTimerId, now, reactVars,
                 canvasVars, arming, pointEcho, viewVars>>

\* the connection effect runs again (a dependency changed, or the development
\* double invocation of effects): the cleanup of the previous run (GamePage.tsx
\* 147-152) closes its socket, whose close event is delivered later, and
\* clears the interval; the effect body (GamePage.tsx 126-145) opens a socket
\* with the same two handlers and stores it with setWs
Rerun ==
  /\ mounted
  /\ sockets.opened < MaxSockets
  /\ sockets' = [opened |-> sockets.opened + 1,
                 closing |-> IF conn = "open"
                               THEN sockets.closing \cup {SocketName(sockets.opened)}
                               ELSE sockets.closing]
  /\ intervals' = clearInterval(timerIntervalRef)
  /\ conn' = "open"
  /\ ws' = SocketName(sockets.opened + 1)
  /\ needsRender' = TRUE
  /\ ev' = [Event("rerun") EXCEPT !.pre = Pre]
  /\ UNCHANGED <<gameState, gameStateRef, chatMessages, drawingHistory,
                 currentRemoteDrawingPoint, wordsToChoose, timeLeft,
                 timerIntervalRef, nextTimerId, now, mounted,
                 historyDirty, pointDirty, canvasVars, arming, pointEcho,
                 shownWords, observer, lastApplied, incAnchor, input>>

\* ws.onclose of a socket a cleanup closed: the same handler (GamePage.tsx
\* 131-143), whichever socket reports
StaleClose ==
  /\ mounted
  /\ Len(chatMessages) < MaxChat
  /\ \E s \in sockets.closing :
       sockets' = [sockets EXCEPT !.closing = @ \ {s}]
  /\ ws' = NULL
  /\ chatMessages' = Append(chatMessages,
       ChatEntry("System", <<"Disconnected from game. Please refresh or try again.">>,
                 FALSE))
  /\ needsRender' = TRUE
  /\ ev' = [Event("staleClose") EXCEPT !.pre = Pre]
  /\ UNCHANGED <<gameState, gameStateRef, drawingHistory, currentRemoteDrawingPoint,
                 wordsToChoose, timeLeft, timerVars, now, conn, mounted,
                 historyDirty, pointDirty, canvasVars, arming, pointEcho,
                 shownWords, observer, lastApplied, incAnchor, input>>

\* the cleanup function of the torn down effect is called once more:
\* websocket.close() on the closed socket, clearInterval of the cleared id
CleanupAgain ==
  /\ ~mounted
  /\ conn' = "closed"
  /\ intervals' = clearInterval(timerIntervalRef)
  /\ ev' = [Event("cleanupAgain") EXCEPT !.pre = Pre]
  /\ UNCHANGED <<pageVars, timerIntervalRef, nextTimerId, now, mounted, reactVars,
                 canvasVars, arming, pointEcho, viewVars>>

-----------------------------------------------------------------------------
(* Local authoring (DrawingCanvas.tsx 125-186, handlers bound at 198-205) *)

CanvasHandlersBound == mounted /\ canvasMounted /\ isDrawer

startDraw(x, y) ==
  /\ CanvasHandlersBound
  /\ drawing' = TRUE
  /\ lastPoint' = Some([x |-> x, y |-> y])
  /\ ev' = [Event("startDraw") EXCEPT
              !.sent = sendDrawingData(DrawPoint(x, y, color, size, "start"))]
  /\ observer' = Observed(DrawPoint(x, y, color, size, "start"))
  /\ UNCHANGED <<pageVars, timerVars, now, conn, mounted, reactVars,
                 canvasMounted, isDrawer, canvasWs, surface, arming, pointEcho, shownWords, lastApplied, incAnchor, input, sockets>>

draw(x, y) ==
  /\ CanvasHandlersBound
  /\ drawing
  /\ Len(surface) < MaxSegs
  /\ IF lastPoint # None
       THEN /\ surface' = Append(surface,
                 Segment(lastPoint[1], DrawPoint(x, y, color, size, "draw")))
            /\ lastPoint' = Some([x |-> x, y |-> y])
       ELSE UNCHANGED <<surface, lastPoint>>
  /\ ev' = [Event("draw") EXCEPT
              !.sent = sendDrawingData(DrawPoint(x, y, color, size, "draw"))]
  /\ observer' = Observed(DrawPoint(x, y, color, size, "draw"))
  /\ UNCHANGED <<pageVars, timerVars, now, conn, mounted, reactVars,
                 canvasMounted, isDrawer, canvasWs, drawing, arming, pointEcho, shownWords, lastApplied, incAnchor, input, sockets>>

endDraw ==
  /\ CanvasHandlersBound
  /\ drawing
  /\ drawing' = FALSE
  /\ lastPoint' = None
  /\ ev' = [Event("endDraw") EXCEPT
              !.sent = sendDrawingData(DrawPoint(0, 0, color, size, "end"))]
  /\ observer' = Observed(DrawPoint(0, 0, color, size, "end"))
  /\ UNCHANGED <<pageVars, timerVars, now, conn, mounted, reactVars,
                 canvasMounted, isDrawer, canvasWs, surface, arming, pointEcho, shownWords, lastApplied, incAnchor, input, sockets>>

\* the "Clear Drawing" button is rendered only under isDrawer && ws
clearCanvas ==
  /\ CanvasHandlersBound
  /\ canvasWs # NULL
  /\ surface' = << >>
  /\ ev' = [Event("clearCanvas") EXCEPT
              !.sent = sendDrawingData(DrawPoint(0, 0, color, size, "clear"))]
  /\ observer' = Observed(DrawPoint(0, 0, color, size, "clear"))
  /\ UNCHANGED <<pageVars, timerVars, now, conn, mounted, reactVars,
                 canvasMounted, isDrawer, canvasWs, lastPoint, drawing,
                 arming, pointEcho, shownWords, lastApplied, incAnchor, input, sockets>>

-----------------------------------------------------------------------------
(* Controls of GamePage (GamePage.tsx 157-168, 198-203, 237-247).  A control
   is the one the last commit rendered: what it shows and the ws its handler
   sees are those of that commit *)

\* the "Start Game" button is rendered and enabled for this session state and
\* connection handle
StartEnabled(gs, handle) ==
  /\ gs # None
  /\ gs[1].host_id = playerId
  /\ ~gs[1].is_game_started
  /\ ~(gs[1].players < 2 \/ handle = NULL)

\* mutant: the button is enabled whatever the number of players
handleStartGame_AnyCount ==
  /\ mounted
  /\ gameStateRef # None
  /\ gameStateRef[1].host_id = playerId
  /\ ~gameStateRef[1].is_game_started
  /\ canvasWs # NULL
  /\ ev' = [Event("startGame") EXCEPT
              !.sent = IF canvasWs # NULL
                         THEN <<Frame("START_GAME", [none |-> TRUE])>> ELSE << >>]
  /\ UNCHANGED <<pageVars, timerVars, now, conn, mounted, reactVars, canvasVars,
                 arming, pointEcho, viewVars>>

\* a click on the "Start Game" button: handleStartGame
handleStartGame ==
  /\ mounted
  /\ StartEnabled(gameStateRef, canvasWs)
  /\ ev' = [Event("startGame") EXCEPT
              !.sent = IF canvasWs # NULL
                         THEN <<Frame("START_GAME", [none |-> TRUE])>> ELSE << >>]
  /\ UNCHANGED <<pageVars, timerVars, now, conn, mounted, reactVars, canvasVars,
                 arming, pointEcho, viewVars>>

\* mutant: the selection is sent but the offer stays pending
handleSelectWord_KeepsOffer(word) ==
  /\ mounted
  /\ \E k \in 1..Len(shownWords) : shownWords[k] = word
  /\ wordsToChoose' = wordsToChoose
  /\ needsRender' = TRUE
  /\ ev' = [Event("selectWord") EXCEPT
              !.sent = IF canvasWs # NULL
                         THEN <<Frame("CHOOSE_WORD", [word |-> word])>> ELSE << >>,
              !.pre = Pre]
  /\ UNCHANGED <<gameState, gameStateRef, ws, chatMessages, drawingHistory,
                 currentRemoteDrawingPoint, timeLeft, timerVars, now, conn, mounted,
                 historyDirty, pointDirty, canvasVars, arming, pointEcho, viewVars>>

\* a click on a word of the WordSelectionModal: handleSelectWord(word)
handleSelectWord(word) ==
  /\ mounted
  /\ \E k \in 1..Len(shownWords) : shownWords[k] = word
  /\ wordsToChoose' = << >>
  /\ needsRender' = TRUE
  /\ ev' = [Event("selectWord") EXCEPT
              !.sent = IF canvasWs # NULL
                         THEN <<Frame("CHOOSE_WORD", [word |-> word])>> ELSE << >>,
              !.pre = Pre]
  /\ UNCHANGED <<gameState, gameStateRef, ws, chatMessages, drawingHistory,
                 currentRemoteDrawingPoint, timeLeft, timerVars, now, conn, mounted,
                 historyDirty, pointDirty, canvasVars, arming, pointEcho, viewVars>>

-----------------------------------------------------------------------------
(* The chat form (Chat.tsx 12-30, 62-78).  Chat is rendered by the commits
   that render the canvas (GamePage.tsx 308) with the ws of the commit; a
   change of its input is committed within the event that makes it *)

\* the characters typed: a white space and a letter
Chars == {" ", "a"}

IsSpace(c) == c = " "

\* the texts of at most n characters
RECURSIVE TextsUpTo(_)
TextsUpTo(n) ==
  IF n = 0 THEN {<< >>}
  ELSE LET shorter == TextsUpTo(n - 1) IN
       shorter \cup {Append(t, c) : t \in {u \in shorter : Len(u) = n - 1}, c \in Chars}

Texts == TextsUpTo(MaxInput)

\* String.prototype.trim: white space is removed from the start, then from
\* the end
RECURSIVE TrimStart(_)
TrimStart(t) ==
  IF t # << >> /\ IsSpace(Head(t)) THEN TrimStart(Tail(t)) ELSE t

RECURSIVE TrimEnd(_)
TrimEnd(t) ==
  IF t # << >> /\ IsSpace(t[Len(t)]) THEN TrimEnd(SubSeq(t, 1, Len(t) - 1)) ELSE t

Trim(t) == TrimEnd(TrimStart(t))

ChatMounted == mounted /\ canvasMounted

\* onChange of the chat input, which is disabled under !ws
onChange(text) ==
  /\ ChatMounted
  /\ canvasWs # NULL
  /\ input' = text
  /\ ev' = Event("type")
  /\ UNCHANGED <<pageVars, timerVars, now, conn, mounted, reactVars, canvasVars,
                 arming, pointEcho, shownWords, observer, lastApplied, incAnchor, sockets>>

\* mutant: the guess carries the input as typed
send_Untrimmed ==
  /\ ChatMounted
  /\ IF canvasWs # NULL /\ Trim(input) # << >>
       THEN /\ input' = << >>
            /\ ev' = [Event("send") EXCEPT
                        !.sent = <<Frame("GUESS", [message |-> input])>>]
       ELSE /\ input' = input
            /\ ev' = Event("send")
  /\ UNCHANGED <<pageVars, timerVars, now, conn, mounted, reactVars, canvasVars,
                 arming, pointEcho, shownWords, observer, lastApplied, incAnchor, sockets>>

\* onSubmit of the chat form: send
send ==
  /\ ChatMounted
  /\ IF canvasWs # NULL /\ Trim(input) # << >>
       THEN /\ input' = << >>
            /\ ev' = [Event("send") EXCEPT
                        !.sent = <<Frame("GUESS", [message |-> Trim(input)])>>]
       ELSE /\ input' = input
            /\ ev' = Event("send")
  /\ UNCHANGED <<pageVars, timerVars, now, conn, mounted, reactVars, canvasVars,
                 arming, pointEcho, shownWords, observer, lastApplied, incAnchor, sockets>>

-----------------------------------------------------------------------------
(* The two rendering paths of DrawingCanvas taken alone *)

\* mutant: the replay uses the lastPoint ref as its anchor and leaves it empty
Replay_SharesAnchor ==
  /\ mounted
  /\ canvasMounted
  /\ surface' = redrawAll(drawingHistory)
  /\ lastPoint' = None
  /\ ev' = [Event("replay") EXCEPT !.pre = [surface |-> surface]]
  /\ UNCHANGED <<pageVars, timerVars, now, conn, mounted, reactVars,
                 canvasMounted, isDrawer, canvasWs, drawing,
                 arming, pointEcho, viewVars>>

\* the replay effect (DrawingCanvas.tsx 78-80): redrawAll on the stroke history
Replay ==
  /\ mounted
  /\ canvasMounted
  /\ surface' = redrawAll(drawingHistory)
  /\ ev' = [Event("replay") EXCEPT !.pre = [surface |-> surface]]
  /\ UNCHANGED <<pageVars, timerVars, now, conn, mounted, reactVars,
                 canvasMounted, isDrawer, canvasWs, lastPoint, drawing,
                 arming, pointEcho, viewVars>>

\* the points of the one stroke of the history arrive as DRAWING_UPDATE frames
\* at a blank canvas of a non-drawer, each committed before the next arrives
Incremental ==
  /\ mounted
  /\ canvasMounted
  /\ ~isDrawer
  /\ Len(drawingHistory) = 1
  /\ surface = << >>
  /\ lastPoint = None
  /\ LET r == IncrementalPath(drawingHistory[1], 1, surface, lastPoint) IN
       /\ surface' = r.surface
       /\ lastPoint' = r.lastPoint
  /\ ev' = [Event("incremental") EXCEPT !.pre = [surface |-> surface]]
  /\ UNCHANGED <<pageVars, timerVars, now, conn, mounted, reactVars,
                 canvasMounted, isDrawer, canvasWs, drawing, arming, pointEcho, viewVars>>

-----------------------------------------------------------------------------
(* Inbound frames the model enumerates *)

Snapshot(d, s, w, t, h) ==
  [current_drawer_id |-> d, is_game_started |-> s, secret_word |-> w,
   timer_expires_at |-> t, drawing_strokes |-> h]

OneStroke ==
  << <<DrawPoint(0, 0, "#000", 4, "start"), DrawPoint(1, 1, "#000", 4, "draw")>> >>

RoleSnapshots ==
  {Snapshot(d, TRUE, w, None, None) : d \in {playerId, otherId}, w \in {NULL, "cat"}}
  \cup {Snapshot(NULL, TRUE, NULL, None, Some(OneStroke))}

DispatchSnapshots ==
  {Snapshot(d, TRUE, "cat", None, h) :
     d \in {playerId, otherId}, h \in {None, Some(OneStroke)}}
  \cup {Snapshot(NULL, FALSE, NULL, Some(Res + 1), Some(<< >>))}

TimerValues == {None, Some(0), Some(Res + 1), Some(3 * Res)}

TimerSnapshots ==
  {Snapshot(otherId, TRUE, NULL, t, Some(<< >>)) : t \in TimerValues}

GameOverPayloads ==
  {[current_drawer_id |-> NULL, is_game_started |-> FALSE, secret_word |-> NULL,
    timer_expires_at |-> None, drawing_strokes |-> Some(<< >>), winner_name |-> n] :
     n \in {NULL, "Ana"}}

Points ==
  {DrawPoint(p.x, p.y, "#000", 4, a) : p \in Pos, a \in {"start", "draw"}}
  \cup {DrawPoint(0, 0, "#000", 4, a) : a \in {"end", "clear"}}

ChatPayloads ==
  {[sender |-> "Ana", message |-> "cat", isCorrectGuess |-> f] :
     f \in {None, Some(FALSE), Some(TRUE)}}

WordOffers ==
  {[current_drawer_id |-> d, words |-> w] :
     d \in {playerId, otherId}, w \in {<<"cat", "sun">>, <<"dog">>}}

ErrorPayloads == {[message |-> "Room is full"]}

DispatchFrames ==
  {Frame("GAME_STATE_UPDATE", p) : p \in DispatchSnapshots}
  \cup {Frame("CHAT_MESSAGE", p) : p \in ChatPayloads}
  \cup {Frame("DRAWING_UPDATE", p) : p \in Points}
  \cup {Frame("WORD_TO_DRAW", p) : p \in WordOffers}
  \cup {Frame("GAME_OVER", p) : p \in GameOverPayloads}
  \cup {Frame("ERROR", p) : p \in ErrorPayloads}
  \cup {Frame("PING", [none |-> TRUE])}

TimerFrames ==
  {Frame("GAME_STATE_UPDATE", p) : p \in TimerSnapshots}
  \cup {Frame("GAME_OVER", p) : p \in {q \in GameOverPayloads : q.winner_name = NULL}}

LocalInput ==
  \/ \E p \in Pos : startDraw(p.x, p.y)
  \/ \E p \in Pos : draw(p.x, p.y)
  \/ endDraw
  \/ clearCanvas

Next ==
  \/ \E msg \in DispatchFrames : Receive(msg)
  \/ OnClose

Spec == Init /\ [][Next]_vars

NextTimer ==
  \/ \E msg \in TimerFrames : Receive(msg)
  \/ Tick
  \/ AdvanceTime
  \/ Render
  \/ OnClose
  \/ Cleanup

SpecTimer == Init /\ [][NextTimer]_vars

\* the page with its countdown and its chat form, torn down at any point
TeardownFrames ==
  {Frame("GAME_STATE_UPDATE", Snapshot(otherId, TRUE, NULL, t, Some(<< >>))) :
     t \in {None, Some(3 * Res)}}

NextTeardown ==
  \/ \E msg \in TeardownFrames : Receive(msg)
  \/ Tick
  \/ AdvanceTime
  \/ Render
  \/ OnClose
  \/ Cleanup
  \/ onChange(<<"a">>)
  \/ send
  \/ CleanupAgain

SpecTeardown == Init /\ [][NextTeardown]_vars

CanvasFrames ==
  {Frame("GAME_STATE_UPDATE", p) : p \in RoleSnapshots}
  \cup {Frame("DRAWING_UPDATE", p) : p \in Points}
  \cup {Frame("GAME_OVER", p) : p \in GameOverPayloads}

NextCanvas ==
  \/ \E msg \in CanvasFrames : Receive(msg)
  \/ Render
  \/ LocalInput

SpecCanvas == Init /\ [][NextCanvas]_vars

\* a snapshot of the lobby; players stands for Object.keys(players).length
LobbySnapshot(h, n, s) ==
  [current_drawer_id |-> NULL, is_game_started |-> s, secret_word |-> NULL,
   timer_expires_at |-> None, drawing_strokes |-> None, host_id |-> h, players |-> n]

LobbySnapshots ==
  {LobbySnapshot(h, n, s) : h \in {playerId, otherId}, n \in 1..2, s \in BOOLEAN}

Words == {"cat", "sun", "dog"}

LobbyFrames ==
  {Frame("GAME_STATE_UPDATE", p) : p \in LobbySnapshots}
  \cup {Frame("WORD_TO_DRAW", p) : p \in WordOffers}

NextLobby ==
  \/ \E msg \in LobbyFrames : Receive(msg)
  \/ Render
  \/ handleStartGame
  \/ \E word \in Words : handleSelectWord(word)
  \/ OnClose

SpecLobby == Init /\ [][NextLobby]_vars

\* the lobby of a page whose connection effect may run again
NextReconnect ==
  \/ \E msg \in LobbyFrames : Receive(msg)
  \/ Render
  \/ handleStartGame
  \/ OnClose
  \/ Rerun
  \/ StaleClose

SpecReconnect == Init /\ [][NextReconnect]_vars

\* the snapshots that hand the drawer role to one participant or the other
DrawerFrames ==
  {Frame("GAME_STATE_UPDATE", Snapshot(d, TRUE, "cat", None, None)) :
     d \in {playerId, otherId}}

\* the local participant is the committed drawer of a drawing phase that has
\* just begun: a blank canvas, no gesture under way, and a remote observer
\* with a blank canvas
InitDrawer ==
  /\ gameState = Some(Snapshot(playerId, TRUE, "cat", None, None))
  /\ gameStateRef = gameState
  /\ ws = "ws1"
  /\ chatMessages = << >>
  /\ drawingHistory = << >>
  /\ currentRemoteDrawingPoint = None
  /\ wordsToChoose = << >>
  /\ timeLeft = 0
  /\ timerIntervalRef = None
  /\ intervals = {}
  /\ nextTimerId = 1
  /\ now = 0
  /\ conn = "open"
  /\ mounted = TRUE
  /\ needsRender = FALSE
  /\ historyDirty = FALSE
  /\ pointDirty = FALSE
  /\ canvasMounted = TRUE
  /\ isDrawer = TRUE
  /\ canvasWs = "ws1"
  /\ surface = << >>
  /\ lastPoint = None
  /\ drawing = FALSE
  /\ shownWords = << >>
  /\ observer = BlankObserver
  /\ lastApplied = "none"
  /\ incAnchor = None
  /\ input = << >>
  /\ sockets = OneSocket
  /\ arming = NoArming
  /\ pointEcho = FALSE
  /\ ev = Event("init")

NextDrawer ==
  \/ LocalInput
  \/ \E msg \in DrawerFrames : Receive(msg)
  \/ Render
  \/ OnClose

SpecDrawer == InitDrawer /\ [][NextDrawer]_vars

\* the snapshots of a session whose drawer is the local participant or nobody,
\* in and out of the drawing phase
PhaseSnapshots ==
  {Snapshot(d, s, w, None, None) :
     d \in {playerId, NULL}, s \in BOOLEAN, w \in {NULL, "", "cat"}}

PhaseFrames == {Frame("GAME_STATE_UPDATE", p) : p \in PhaseSnapshots}

NextPhase ==
  \/ \E msg \in PhaseFrames : Receive(msg)
  \/ Render
  \/ LocalInput

SpecPhase == Init /\ [][NextPhase]_vars

\* the snapshots that enable each control of the local participant: a lobby
\* it hosts with two players, and a drawing phase in which it draws
SendSnapshots ==
  {LobbySnapshot(playerId, 2, FALSE),
   [LobbySnapshot(playerId, 2, TRUE) EXCEPT
      !.current_drawer_id = playerId, !.secret_word = "cat"]}

SendFrames ==
  {Frame("GAME_STATE_UPDATE", p) : p \in SendSnapshots}
  \cup {Frame("WORD_TO_DRAW", [current_drawer_id |-> playerId, words |-> <<"dog">>])}

\* the local input on a canvas that shows no segment yet
FirstMarks == surface = << >> /\ LocalInput

NextSend ==
  \/ \E msg \in SendFrames : Receive(msg)
  \/ Render
  \/ handleStartGame
  \/ \E word \in Words : handleSelectWord(word)
  \/ FirstMarks
  \/ \E text \in Texts : onChange(text)
  \/ send
  \/ OnClose

SpecSend == Init /\ [][NextSend]_vars

\* what a non-drawer is sent during a drawing phase of another participant
ObserverFrames ==
  {Frame("GAME_STATE_UPDATE", Snapshot(otherId, TRUE, "cat", None, h)) :
     h \in {None, Some(OneStroke)}}
  \cup {Frame("DRAWING_UPDATE", p) : p \in Points}

\* a delivery to a canvas that may hold one mark more than MaxSegs
ReceiveObs(msg) ==
  /\ Len(surface) <= MaxSegs
  /\ Deliver(msg)

NextObserver ==
  \/ \E msg \in ObserverFrames : ReceiveObs(msg)
  \/ Render

SpecObserver == Init /\ [][NextObserver]_vars

\* stroke points: a start per position, a draw per position and style, an end
\* and a clear
ReplayPoints ==
  {DrawPoint(p.x, p.y, "#000", 4, "start") : p \in Pos}
  \cup {DrawPoint(p.x, p.y, st[1], st[2], "draw") :
          p \in Pos, st \in {<<"#000", 4>>, <<"#f00", 8>>}}
  \cup {DrawPoint(0, 0, "#000", 4, a) : a \in {"end", "clear"}}

Strokes == UNION {[1..n -> ReplayPoints] : n \in 0..MaxPoints}

ScenarioStroke ==
  <<DrawPoint(0, 0, "#000", 4, "start"), DrawPoint(10, 10, "#000", 4, "draw")>>

ReplayHistories ==
  {<< >>, <<ScenarioStroke>>}
  \cup {<<s>> : s \in Strokes}
  \cup {<<OneStroke[1], s>> : s \in Strokes}

PriorSurfaces ==
  {<< >>, <<Segment([x |-> 1, y |-> 1], DrawPoint(0, 0, "#0f0", 2, "draw"))>>}

\* a mounted canvas of a non-drawer holding some marks, with a stroke history
\* set by the last snapshot
InitReplay ==
  /\ drawingHistory \in ReplayHistories
  /\ surface \in PriorSurfaces
  /\ gameState = Some(Snapshot(otherId, TRUE, "cat", None, Some(drawingHistory)))
  /\ gameStateRef = gameState
  /\ canvasMounted = TRUE
  /\ ws = "ws1"
  /\ chatMessages = << >>
  /\ currentRemoteDrawingPoint = None
  /\ wordsToChoose = << >>
  /\ timeLeft = 0
  /\ timerIntervalRef = None
  /\ intervals = {}
  /\ nextTimerId = 1
  /\ now = 0
  /\ conn = "open"
  /\ mounted = TRUE
  /\ needsRender = FALSE
  /\ historyDirty = FALSE
  /\ pointDirty = FALSE
  /\ isDrawer = FALSE
  /\ canvasWs = "ws1"
  /\ lastPoint = None
  /\ drawing = FALSE
  /\ shownWords = << >>
  /\ observer = NoObserver
  /\ lastApplied = "none"
  /\ incAnchor = None
  /\ input = << >>
  /\ sockets = OneSocket
  /\ arming = NoArming
  /\ pointEcho = FALSE
  /\ ev = Event("init")

NextReplay ==
  \/ Replay
  \/ Incremental

SpecReplay == InitReplay /\ [][NextReplay]_vars

LogFrames ==
  {Frame("GAME_STATE_UPDATE", Snapshot(otherId, TRUE, "cat", None, None))}
  \cup {Frame("CHAT_MESSAGE", p) : p \in ChatPayloads}
  \cup {Frame("GAME_OVER", p) : p \in GameOverPayloads}
  \cup {Frame("ERROR", p) : p \in ErrorPayloads}
  \cup {Frame("DRAWING_UPDATE", DrawPoint(0, 0, "#000", 4, "start"))}
  \cup {Frame("PING", [none |-> TRUE])}

NextChat ==
  \/ \E msg \in LogFrames : ReceiveLog(msg)
  \/ OnCloseLog
  \/ Render

SpecChat == Init /\ [][NextChat]_vars

-----------------------------------------------------------------------------
(* Properties *)

Received(type) == ev.kind = "recv" /\ ev.msg.type = type

\* C1: right after a GAME_STATE_UPDATE frame is processed, SessionState is the
\* payload, StrokeHistory is payload.drawing_strokes (the empty sequence when the
\* field is absent) and the incremental point buffer is empty, whatever the
\* state was before.
C1_SnapshotReplacesWholesale ==
  Received("GAME_STATE_UPDATE") =>
    /\ gameState = Some(ev.msg.payload)
    /\ drawingHistory = (IF ev.msg.payload.drawing_strokes = None THEN << >>
                         ELSE ev.msg.payload.drawing_strokes[1])
    /\ currentRemoteDrawingPoint = None

\* a snapshot without drawing_strokes arrived over a session that held a state,
\* a stroke history and a buffered point
C1_Witness ==
  /\ Received("GAME_STATE_UPDATE")
  /\ ev.msg.payload.drawing_strokes = None
  /\ ev.pre.state /\ ev.pre.strokes /\ ev.pre.point
  /\ drawingHistory = << >>

\* C10: a WORD_TO_DRAW frame replaces PendingWordChoice with payload.words when
\* payload.current_drawer_id is the local participant id and changes nothing
\* else; for any other id the frame changes nothing at all.
C10_WordOfferOnlyForDrawer ==
  [][(ev'.kind = "recv" /\ ev'.msg.type = "WORD_TO_DRAW") =>
       IF ev'.msg.payload.current_drawer_id = playerId
         THEN /\ wordsToChoose' = ev'.msg.payload.words
              /\ UNCHANGED <<gameState, gameStateRef, ws, chatMessages, drawingHistory,
                             currentRemoteDrawingPoint, timeLeft, timerVars, now,
                             conn, mounted, canvasVars>>
         ELSE UNCHANGED <<pageVars, timerVars, now, conn, mounted, reactVars,
                          canvasVars>>]_vars

\* an offer addressed to the other participant arrived while an accepted offer
\* was pending, and the pending offer is still there
C10_Witness ==
  /\ Received("WORD_TO_DRAW")
  /\ ev.msg.payload.current_drawer_id = otherId
  /\ ev.pre.words = <<"cat", "sun">>
  /\ ev.msg.payload.words = <<"dog">>
  /\ wordsToChoose = <<"cat", "sun">>

-----------------------------------------------------------------------------
(* Properties of the countdown *)

ArmedBy(msg) == msg.type = "GAME_STATE_UPDATE" /\ TruthyNum(msg.payload.timer_expires_at)

\* C4: on arrival of a GAME_STATE_UPDATE with a non-null expiry E the running
\* tick source is cancelled, remaining is max(0, floor(E - now)) at arrival, and
\* the one tick source started recomputes remaining from E at every tick.
C4_ArmComputesAtArrival ==
  /\ (ev.kind = "recv" /\ ArmedBy(ev.msg)) =>
       /\ Cardinality(intervals) = 1
       /\ \A i \in intervals : i.expiresAt = ev.msg.payload.timer_expires_at[1]
       /\ timeLeft = Remaining(ev.msg.payload.timer_expires_at[1], now)
  /\ ev.kind = "tick" =>
       (arming.armed /\ timeLeft = Remaining(arming.expiresAt, now))

\* C5: there is never more than one active tick source; it is the one of the
\* latest arming, so after re-arming with E2 over E1 exactly one source is
\* active and every tick computes remaining from E2.
C5_SingleTickSource ==
  /\ Cardinality(intervals) <= 1
  /\ \A i \in intervals :
       /\ arming.armed
       /\ i.id = arming.id
       /\ i.expiresAt = arming.expiresAt
       /\ timerIntervalRef = Some(i.id)
  /\ (ev.kind = "recv" /\ ArmedBy(ev.msg)) => Cardinality(intervals) = 1
  /\ ev.kind = "tick" =>
       (arming.armed /\ timeLeft = Remaining(arming.expiresAt, now))

\* a tick of an arming that superseded a running arming with another expiry,
\* at a time where the two expiries give different values
C5_Witness ==
  /\ ev.kind = "tick"
  /\ arming.armed
  /\ arming.superseded # None
  /\ arming.superseded[1] # arming.expiresAt
  /\ Remaining(arming.superseded[1], now) # Remaining(arming.expiresAt, now)
  /\ Cardinality(intervals) = 1

\* C6: the values one arming's ticks compute never increase, the tick that
\* computes 0 removes the arming's tick source, and no tick of that arming
\* fires after it.
C6_TimerMonotone ==
  arming.armed =>
    /\ arming.prev # None => arming.last[1] <= arming.prev[1]
    /\ arming.last = Some(0) => \A i \in intervals : i.id # arming.id
    /\ ~arming.afterZero

\* a countdown that went down from a positive value to 0 and stopped
C6_Witness ==
  /\ arming.armed
  /\ arming.fired >= 3
  /\ arming.prev # None /\ arming.prev[1] > 0
  /\ arming.last = Some(0)
  /\ intervals = {}

\* C7: an arming with expiry N whole seconds ahead has remaining 0 and no tick
\* source once N ticks have fired; an arming whose expiry is not ahead has
\* them after its first tick.
C7_CountdownEnds ==
  arming.armed =>
    LET d == arming.expiresAt - arming.at IN
    ( \/ (d > 0 /\ d % Res = 0 /\ arming.fired >= d \div Res)
      \/ (d <= 0 /\ arming.fired >= 1) )
    => (timeLeft = 0 /\ (\A i \in intervals : i.id # arming.id))

\* an arming N >= 2 whole seconds ahead, after exactly N ticks
C7_Witness ==
  /\ arming.armed
  /\ (arming.expiresAt - arming.at) % Res = 0
  /\ (arming.expiresAt - arming.at) \div Res >= 2
  /\ arming.fired = (arming.expiresAt - arming.at) \div Res
  /\ arming.prev # None /\ arming.prev[1] > 0
  /\ timeLeft = 0
  /\ intervals = {}

\* C8: a GAME_STATE_UPDATE with a null expiry leaves no tick source and
\* remaining 0, and while the timer is disarmed no tick fires.
C8_NullExpiryDisarms ==
  /\ (ev.kind = "recv" /\ ev.msg.type = "GAME_STATE_UPDATE"
        /\ ev.msg.payload.timer_expires_at = None) =>
       (timeLeft = 0 /\ intervals = {} /\ timerIntervalRef = None)
  /\ ~arming.armed => (intervals = {} /\ ev.kind # "tick")

\* a null expiry arrived in the middle of a countdown
C8_Witness ==
  /\ ev.kind = "recv" /\ ev.msg.type = "GAME_STATE_UPDATE"
  /\ ev.msg.payload.timer_expires_at = None
  /\ ev.pre.armed
  /\ ev.pre.timeLeft > 0
  /\ timeLeft = 0

\* C9: after the transport reports closure, and after teardown, no tick source
\* is active and remaining is 0.
C9_CloseStopsTimer ==
  ev.kind \in {"close", "cleanup"} => (intervals = {} /\ timeLeft = 0)

-----------------------------------------------------------------------------
(* Properties of the dispatcher: chat log and frame effects *)

\* C11: a CHAT_MESSAGE frame appends exactly one entry at the end of the chat
\* log, with the payload's sender and message and the payload's isCorrectGuess,
\* which is false when the field is absent.
C11_ChatAppendsOne ==
  [][(ev'.kind = "recv" /\ ev'.msg.type = "CHAT_MESSAGE") =>
       LET p == ev'.msg.payload IN
       /\ Len(chatMessages') = Len(chatMessages) + 1
       /\ SubSeq(chatMessages', 1, Len(chatMessages)) = chatMessages
       /\ chatMessages'[Len(chatMessages')] =
            [sender |-> p.sender, message |-> <<p.message>>,
             isCorrectGuess |-> (p.isCorrectGuess = Some(TRUE))]]_vars

\* a chat frame without the flag appended behind an older entry
C11_Witness ==
  /\ Received("CHAT_MESSAGE")
  /\ ev.msg.payload.isCorrectGuess = None
  /\ Len(chatMessages) = 2
  /\ chatMessages[1] # chatMessages[2]
  /\ chatMessages[2].isCorrectGuess = FALSE

\* C12: the chat log is append-only: every step leaves the old log as a prefix
\* of the new one, and a frame that produces an entry puts it at the end, so
\* entries stand in the arrival order of their frames.
C12_ChatAppendOnly ==
  [][/\ Len(chatMessages') >= Len(chatMessages)
     /\ SubSeq(chatMessages', 1, Len(chatMessages)) = chatMessages
     /\ (ev'.kind = "recv" /\ AppendsChat(ev'.msg)) =>
          /\ Len(chatMessages') = Len(chatMessages) + 1
          /\ chatMessages'[Len(chatMessages')].sender =
               (CASE ev'.msg.type = "CHAT_MESSAGE" -> ev'.msg.payload.sender
                  [] ev'.msg.type = "GAME_OVER" -> "Game"
                  [] ev'.msg.type = "ERROR" -> "System")]_vars

\* the closure notice appended behind the entry of an earlier frame
C12_Witness ==
  /\ ev.kind = "close"
  /\ Len(chatMessages) = 2
  /\ chatMessages[1].sender = "Ana"
  /\ chatMessages[2].sender = "System"

\* C13: a GAME_OVER frame makes the payload the SessionState and appends exactly
\* one entry of sender "Game" that announces payload.winner_name, or a tie when
\* the name is absent or null.
C13_GameOverAnnounces ==
  [][(ev'.kind = "recv" /\ ev'.msg.type = "GAME_OVER") =>
       LET p == ev'.msg.payload
           last == chatMessages'[Len(chatMessages')] IN
       /\ gameState' = Some(p)
       /\ Len(chatMessages') = Len(chatMessages) + 1
       /\ SubSeq(chatMessages', 1, Len(chatMessages)) = chatMessages
       /\ last.sender = "Game"
       /\ last.message[2] = (IF p.winner_name = NULL THEN "No one (tie)"
                             ELSE p.winner_name)]_vars

\* a tie announced over an earlier SessionState and an earlier chat entry
C13_Witness ==
  /\ Received("GAME_OVER")
  /\ ev.msg.payload.winner_name = NULL
  /\ ev.pre.state
  /\ gameState = Some(ev.msg.payload)
  /\ Len(chatMessages) = 2
  /\ chatMessages[2].message = <<"GAME OVER! Winner: ", "No one (tie)">>

\* C14: an ERROR frame appends exactly one "System" entry that carries
\* payload.message and changes nothing else.
C14_ErrorOnlyLogs ==
  [][(ev'.kind = "recv" /\ ev'.msg.type = "ERROR") =>
       LET last == chatMessages'[Len(chatMessages')] IN
       /\ Len(chatMessages') = Len(chatMessages) + 1
       /\ SubSeq(chatMessages', 1, Len(chatMessages)) = chatMessages
       /\ last.sender = "System"
       /\ last.message[Len(last.message)] = ev'.msg.payload.message
       /\ UNCHANGED <<gameState, gameStateRef, ws, drawingHistory,
                      currentRemoteDrawingPoint, wordsToChoose, timeLeft,
                      timerIntervalRef, intervals, nextTimerId, conn,
                      surface, lastPoint>>]_vars

\* an error reported while a SessionState, a buffered point and an older chat
\* entry exist
C14_Witness ==
  /\ Received("ERROR")
  /\ gameState # None
  /\ currentRemoteDrawingPoint # None
  /\ Len(chatMessages) = 2

\* C15: a frame of an unknown type leaves every component of the state as it
\* was, and requests no render.
C15_UnknownTypeIgnored ==
  [][(ev'.kind = "recv" /\ ev'.msg.type \notin
        {"GAME_STATE_UPDATE", "CHAT_MESSAGE", "DRAWING_UPDATE", "WORD_TO_DRAW",
         "GAME_OVER", "ERROR"}) =>
       UNCHANGED <<gameState, gameStateRef, ws, chatMessages, drawingHistory,
                   currentRemoteDrawingPoint, wordsToChoose, timeLeft,
                   timerIntervalRef, intervals, nextTimerId, conn,
                   needsRender, historyDirty, pointDirty,
                   surface, lastPoint>>]_vars

\* an unknown frame received while state of every kind exists
C15_Witness ==
  /\ Received("PING")
  /\ gameState # None
  /\ drawingHistory # << >>
  /\ currentRemoteDrawingPoint # None
  /\ wordsToChoose # << >>
  /\ chatMessages # << >>

\* C16: a DRAWING_UPDATE frame makes its payload the buffered incremental point
\* and leaves the stroke history, the SessionState, the chat log, the word
\* offer and the timer unchanged, whatever the point's action is.
C16_DrawingUpdateBuffers ==
  [][(ev'.kind = "recv" /\ ev'.msg.type = "DRAWING_UPDATE") =>
       /\ currentRemoteDrawingPoint' = Some(ev'.msg.payload)
       /\ UNCHANGED <<gameState, drawingHistory, chatMessages, wordsToChoose,
                      timeLeft, timerIntervalRef, intervals, nextTimerId>>]_vars

\* a "clear" point buffered over a non-empty stroke history, a word offer and
\* a chat entry
C16_Witness ==
  /\ Received("DRAWING_UPDATE")
  /\ ev.msg.payload.action = "clear"
  /\ currentRemoteDrawingPoint = Some(ev.msg.payload)
  /\ drawingHistory # << >>
  /\ wordsToChoose # << >>
  /\ chatMessages # << >>

-----------------------------------------------------------------------------
(* Properties of the drawer role *)

NamesLocalDrawer(gs) == gs # None /\ gs[1].current_drawer_id = playerId

\* C2: a DRAWING_UPDATE point that arrived while the local participant was the
\* active drawer (named by the SessionState in an active drawing phase, holding
\* the isDrawer prop, no commit pending) is never applied to the surface by the
\* incremental effect, at no later commit.
C2_NoSelfEcho ==
  ~(ev.kind = "render" /\ ev.applied # None /\ ev.echo)

\* C3: a DRAWING_DATA frame is sent only while the SessionState names the local
\* participant as current drawer, be it the state the dispatcher applied last
\* or the state of the last commit.
C3_OnlyDrawerEmits ==
  (\E k \in 1..Len(ev.sent) : ev.sent[k].type = "DRAWING_DATA") =>
    (NamesLocalDrawer(gameState) \/ NamesLocalDrawer(gameStateRef))

NamesOtherDrawer(gs) == gs # None /\ gs[1].current_drawer_id = otherId

\* C17: every DRAWING_UPDATE point delivered to a participant who is not the
\* drawer reaches the surface: no frame is delivered while an earlier point,
\* buffered for a mounted canvas of a non-drawer in an active drawing phase,
\* still waits for its commit
\* (the later point would replace it in the buffer before it is applied).
C17_NoPointCoalesced ==
  [][~( /\ ev'.kind = "recv"
        /\ ev'.msg.type = "DRAWING_UPDATE"
        /\ pointDirty
        /\ currentRemoteDrawingPoint # None
        /\ currentRemoteDrawingPoint' # currentRemoteDrawingPoint
        /\ canvasMounted
        /\ ~isDrawer
        /\ NamesOtherDrawer(gameState)
        /\ NamesOtherDrawer(gameStateRef)
        /\ isDrawingPhaseActive(gameState[1]) )]_vars

-----------------------------------------------------------------------------
(* Properties of the rendering paths *)

\* the k-th point of a stroke is a draw point that has a running anchor
Anchored(stroke, k) ==
  /\ stroke[k].action = "draw"
  /\ \E j \in 1..(k - 1) : stroke[j].action = "start"

\* the point that moved the anchor last before the k-th point
AnchorOf(stroke, k) ==
  LET Moves(j) == stroke[j].action = "start" \/ Anchored(stroke, j)
      j == CHOOSE i \in 1..(k - 1) :
             Moves(i) /\ \A h \in (i + 1)..(k - 1) : ~Moves(h)
  IN XY(stroke[j])

\* positions <<stroke, point>> of the draw points of a history that have an anchor
Marks(H) ==
  UNION {{<<n, k>> : k \in {i \in 1..Len(H[n]) : Anchored(H[n], i)}} : n \in 1..Len(H)}

Before(a, b) == a[1] < b[1] \/ (a[1] = b[1] /\ a[2] <= b[2])

\* C18: after a full replay of the history H the surface holds nothing of what
\* it held before and exactly one segment for each draw point that has a
\* running anchor in its stroke, in the order of the strokes and of their
\* points, from that anchor to the point, in the point's own color and brush
\* size; start points (and end and clear points) leave no mark. The history
\* [[start(0,0), draw(10,10)]] gives the single segment (0,0)-(10,10).
C18_ReplayRendersSegments ==
  ev.kind = "replay" =>
    LET H == drawingHistory IN
    /\ Len(surface) = Cardinality(Marks(H))
    /\ \A m \in Marks(H) :
         LET n == Cardinality({o \in Marks(H) : Before(o, m)})
             data == H[m[1]][m[2]]
         IN surface[n] = [from |-> AnchorOf(H[m[1]], m[2]),
                          to |-> [x |-> data.x, y |-> data.y],
                          color |-> data.color,
                          brush_size |-> data.brush_size]
    /\ H = <<ScenarioStroke>> =>
         surface = <<[from |-> [x |-> 0, y |-> 0], to |-> [x |-> 10, y |-> 10],
                      color |-> "#000", brush_size |-> 4]>>

\* a replay over a marked surface of two strokes that gives segments of two
\* styles, the later one starting where the earlier one ended
C18_Witness ==
  /\ ev.kind = "replay"
  /\ ev.pre.surface # << >>
  /\ Len(drawingHistory) = 2
  /\ Len(surface) = 3
  /\ surface[2].color # surface[3].color
  /\ surface[3].from = surface[2].to
  /\ surface[3].from # surface[3].to

\* C19: a replay gives the surface that a replay of the same history onto a
\* blank surface gives, whatever the surface held before, and a replay that
\* follows a replay changes nothing.
C19_ReplayIdempotent ==
  [][ev'.kind = "replay" =>
       /\ surface' = ReplayStrokes(drawingHistory, 1, << >>)
       /\ ev.kind = "replay" => surface' = surface]_vars

\* a second replay in a row, of a history that leaves marks
C19_Witness ==
  /\ ev.kind = "replay"
  /\ ev.pre.surface = surface
  /\ surface # << >>
  /\ surface \notin PriorSurfaces

\* a single stroke of the form start, draw, draw, ...
PlainStroke(stroke) ==
  /\ Len(stroke) >= 1
  /\ stroke[1].action = "start"
  /\ \A k \in 2..Len(stroke) : stroke[k].action = "draw"

\* C20: the points of a single stroke start, draw, draw, ... applied one by
\* one through the incremental path onto a blank surface give the segments
\* that the full replay of the history holding that stroke alone gives.
C20_IncrementalEqualsReplay ==
  (ev.kind = "incremental" /\ PlainStroke(drawingHistory[1])) =>
    surface = redrawAll(drawingHistory)

\* a stroke of a start and two draws to different positions, applied
\* incrementally
C20_Witness ==
  /\ ev.kind = "incremental"
  /\ PlainStroke(drawingHistory[1])
  /\ Len(drawingHistory[1]) = 3
  /\ Len(surface) = 2
  /\ surface[1].to # surface[2].to
  /\ surface[2].from = surface[1].to

\* the marks of each stroke of a history replayed alone onto its own blank
\* canvas, one stroke after the other
RECURSIVE StrokeByStroke(_, _)
StrokeByStroke(H, n) ==
  IF n > Len(H) THEN << >>
  ELSE ReplayStroke(H[n], 1, None, << >>) \o StrokeByStroke(H, n + 1)

NoStart(stroke) == \A k \in 1..Len(stroke) : stroke[k].action # "start"

IsMark(p) == p.action \in {"start", "draw"}

\* a history without its "end" and "clear" points
Unpunctuated(H) == [n \in 1..Len(H) |-> SelectSeq(H[n], IsMark)]

\* C39: during a full replay the running anchor starts afresh in every stroke:
\* the surface is what the strokes give when each is replayed on its own, a
\* stroke without a "start" adds nothing even after a stroke that left an
\* anchor, and "end" and "clear" points inside a stroke render nothing and
\* wipe nothing (the replay gives what the history without them gives)
C39_ReplayAnchorPerStroke ==
  ev.kind = "replay" =>
    LET H == drawingHistory IN
    /\ surface = StrokeByStroke(H, 1)
    /\ (Len(H) = 2 /\ NoStart(H[2])) => surface = StrokeByStroke(<<H[1]>>, 1)
    /\ surface = StrokeByStroke(Unpunctuated(H), 1)

\* the replay of a stroke that left an anchor followed by a stroke of a "draw"
\* and a "clear": the one segment of the first stroke is all there is
C39_Witness ==
  /\ ev.kind = "replay"
  /\ Len(drawingHistory) = 2
  /\ Len(drawingHistory[2]) = 2
  /\ drawingHistory[2][1].action = "draw"
  /\ drawingHistory[2][2].action = "clear"
  /\ Len(surface) = 1
  /\ surface[1].to = XY(drawingHistory[1][Len(drawingHistory[1])])

\* C31: the anchor of the incremental path and the anchor of the replay are
\* apart: a full replay leaves the incremental anchor as it was, and what the
\* replay renders is fixed by the history alone, whatever anchor the
\* incremental points have left
C31_AnchorsApart ==
  [][ev'.kind = "replay" =>
       /\ lastPoint' = lastPoint
       /\ surface' = StrokeByStroke(drawingHistory, 1)]_vars

\* a replay ran while the incremental path held an anchor, which is still
\* there, and a second replay gave the same marks again
C31_Witness ==
  /\ ev.kind = "replay"
  /\ lastPoint # None
  /\ ev.pre.surface = surface
  /\ surface # << >>

-----------------------------------------------------------------------------
(* The incremental path at an observer *)

\* the canvas the incremental effect of a commit draws on: the replay effect
\* of the same commit has run before it
AfterReplay == IF ~canvasMounted \/ historyDirty THEN redrawAll(drawingHistory)
               ELSE surface

\* C21: in the incremental path a "draw" point that finds no anchor renders
\* nothing, leaves the anchor absent and adds no chat entry; a "draw" point
\* that finds an anchor renders exactly one segment from the anchor to the
\* point and moves the anchor to the point
C21_DrawNeedsAnchor ==
  [][AppliedAction(ev') = "draw" =>
       LET p == ev'.applied[1] IN
       IF lastPoint = None
         THEN /\ surface' = AfterReplay
              /\ lastPoint' = None
              /\ chatMessages' = chatMessages
         ELSE /\ surface' = Append(AfterReplay, Segment(lastPoint[1], p))
              /\ lastPoint' = Some(XY(p))]_vars

\* a "draw" was dropped for want of an anchor on a canvas that holds the
\* segment of an earlier anchored "draw"
C21_Witness ==
  /\ AppliedAction(ev) = "draw"
  /\ lastPoint = None
  /\ drawingHistory = << >>
  /\ Len(surface) = 1
  /\ chatMessages = << >>

\* C22: in the incremental path an "end" point clears the anchor and leaves
\* the surface as it is, a "clear" point empties the surface and clears the
\* anchor; a "draw" applied next, with no "start" in between, renders nothing
C22_EndAndClearDropAnchor ==
  [][/\ AppliedAction(ev') = "end" =>
          surface' = AfterReplay /\ lastPoint' = None
     /\ AppliedAction(ev') = "clear" =>
          surface' = << >> /\ lastPoint' = None
     /\ (lastApplied \in {"end", "clear"} /\ AppliedAction(ev') = "draw") =>
          surface' = AfterReplay /\ lastPoint' = None]_vars

\* a "draw" applied right after an "end" added nothing to a canvas that
\* holds the mark of the stroke the "end" closed
C22_Witness ==
  /\ AppliedAction(ev) = "draw"
  /\ ev.pre.last = "end"
  /\ ev.pre.lastPoint = None
  /\ drawingHistory = << >>
  /\ Len(surface) = 1
  /\ surface = ev.pre.surface
  /\ lastPoint = None


\* the strokes a snapshot carries (payload.drawing_strokes || [])
StrokesOf(payload) == IF payload.drawing_strokes = None THEN << >>
                      ELSE payload.drawing_strokes[1]

\* C29: every GAME_STATE_UPDATE makes the next commit replay the whole
\* history before it applies any later point: a commit that directly follows
\* the snapshot leaves exactly the replay of payload.drawing_strokes on the
\* canvas, whatever was drawn before and whether or not the history changed
\* in content; a point that arrived after the snapshot is applied on top of
\* the replay
C29_SnapshotReplaysFirst ==
  [][/\ (Received("GAME_STATE_UPDATE") /\ ev'.kind = "render") =>
          surface' = ReplayStrokes(StrokesOf(ev.msg.payload), 1, << >>)
     /\ (historyDirty /\ ev'.kind = "render" /\ gameState # None) =>
          LET replayed == ReplayStrokes(drawingHistory, 1, << >>) IN
          surface' = IF ev'.applied = None THEN replayed
                     ELSE IncrementalApply(replayed, lastPoint, ev'.applied[1]).surface]_vars

\* the commit of a snapshot removed a mark that an incremental "draw" had
\* left on the canvas and that the snapshot does not hold
C29_Witness ==
  /\ ev.kind = "render"
  /\ ev.applied = None
  /\ lastApplied = "draw"
  /\ Len(ev.pre.surface) = 1
  /\ drawingHistory = << >>
  /\ surface = << >>

\* C34: a segment rendered by the incremental path starts at the position of
\* the most recent incremental "start" or "draw" point applied since the last
\* incremental "end" or "clear", never at an anchor that a local pointer
\* gesture of the participant has left
C34_AnchorIsIncremental ==
  [][(AppliedAction(ev') = "draw" /\ Len(surface') = Len(AfterReplay) + 1) =>
       /\ incAnchor # None
       /\ surface'[Len(surface')].from = incAnchor[1]]_vars

-----------------------------------------------------------------------------
(* Closure of the connection *)

DisconnectNotice ==
  ChatEntry("System", <<"Disconnected from game. Please refresh or try again.">>, FALSE)

\* C23: when the transport reports an unexpected closure, exactly one system
\* entry announcing the disconnection is appended and the connection handle
\* becomes empty; from then on the handle stays empty, the connection stays
\* closed (no reconnect, no retry) and the notice is not repeated
C23_ClosureIsFinal ==
  [][/\ ev'.kind = "close" =>
          /\ chatMessages' = Append(chatMessages, DisconnectNotice)
          /\ ws' = NULL
          /\ conn' = "closed"
     /\ ws = NULL =>
          /\ ws' = NULL
          /\ conn' = "closed"
          /\ chatMessages' = chatMessages]_vars

\* the page has gone on (a commit) after a closure that followed a chat line:
\* the handle is empty and the notice is the one entry added since
C23_Witness ==
  /\ ev.kind = "render"
  /\ ws = NULL
  /\ canvasWs = NULL
  /\ conn = "closed"
  /\ Len(chatMessages) = 2
  /\ chatMessages[2] = DisconnectNotice
  /\ chatMessages[1] # DisconnectNotice

-----------------------------------------------------------------------------
(* The controls of the page *)

\* C25: the pending word choice changes only when an accepted WORD_TO_DRAW
\* offer arrives, which replaces it by the words of the offer, or when a word
\* is selected, which empties it; it is empty from the start, so it is
\* non-empty only between an accepted offer and the next selection
C25_WordChoiceLifecycle ==
  [][/\ ev'.kind = "selectWord" => wordsToChoose' = << >>
     /\ (ev'.kind = "recv" /\ ev'.msg.type = "WORD_TO_DRAW"
           /\ ev'.msg.payload.current_drawer_id = playerId) =>
          wordsToChoose' = ev'.msg.payload.words
     /\ wordsToChoose' # wordsToChoose =>
          \/ ev'.kind = "selectWord"
          \/ /\ ev'.kind = "recv" /\ ev'.msg.type = "WORD_TO_DRAW"
             /\ ev'.msg.payload.current_drawer_id = playerId]_vars

\* the word of a pending offer was selected and sent: the choice had been
\* that offer and is empty now
C25_Witness ==
  /\ ev.kind = "selectWord"
  /\ ev.pre.words = <<"dog">>
  /\ ev.sent = <<Frame("CHOOSE_WORD", [word |-> "dog"])>>
  /\ wordsToChoose = << >>

\* C32: teardown cancels the timer tick source and closes the transport, and
\* is idempotent: after teardown no tick fires, no frame is sent and nothing
\* but the clock changes; performing teardown again, or tearing down after
\* the transport has already closed or the timer has already stopped, changes
\* nothing else
C32_TeardownIsFinal ==
  [][/\ ev'.kind = "cleanup" =>
          /\ ~mounted'
          /\ conn' = "closed"
          /\ intervals' = {}
          /\ UNCHANGED <<pageVars, timerIntervalRef, nextTimerId, reactVars,
                         canvasVars, viewVars>>
     /\ ~mounted =>
          /\ ev'.kind \in {"time", "cleanupAgain"}
          /\ ev'.sent = << >>
          /\ UNCHANGED <<pageVars, timerVars, conn, mounted, reactVars,
                         canvasVars, viewVars>>]_vars

\* the teardown ran with a countdown under way and the transport already
\* closed, and was then performed once more
C32_Witness ==
  /\ ev.kind = "cleanupAgain"
  /\ ev.pre.timeLeft > 0
  /\ timerIntervalRef # None
  /\ ws = NULL
  /\ intervals = {}
  /\ conn = "closed"

\* C33: the connection handle held by the page is empty only if the most
\* recently opened connection has closed: the late close notification of a
\* socket that a re-run of the connection effect superseded neither empties
\* the handle of the live connection nor appends a disconnection entry
C33_HandleFollowsLiveSocket ==
  [][/\ (mounted' /\ ws' = NULL) => conn' = "closed"
     /\ ev'.kind = "staleClose" => (ws' = ws /\ chatMessages' = chatMessages)]_vars

\* C37: whenever the pending word choice is emptied by a word selection,
\* exactly one CHOOSE_WORD frame carrying the selected word, a member of the
\* pending choice at that moment (the latest offer, or the one the modal
\* shows), has been sent; in particular a selection made while the connection
\* handle is empty does not discard the offer
C37_SelectionSendsTheChoice ==
  [][(ev'.kind = "selectWord" /\ wordsToChoose' = << >>) =>
       \E offer \in {wordsToChoose, shownWords} : \E k \in 1..Len(offer) :
         ev'.sent = <<Frame("CHOOSE_WORD", [word |-> offer[k]])>>]_vars

\* m is t without the white space at its two ends, and is not empty
TrimmedOf(m, t) ==
  /\ m # << >>
  /\ ~IsSpace(m[1])
  /\ ~IsSpace(m[Len(m)])
  /\ \E i \in 0..Len(t) :
       /\ i + Len(m) <= Len(t)
       /\ SubSeq(t, i + 1, i + Len(m)) = m
       /\ \A k \in 1..Len(t) : (k <= i \/ k > i + Len(m)) => IsSpace(t[k])

OutboundTypes == {"START_GAME", "CHOOSE_WORD", "DRAWING_DATA", "GUESS"}

-----------------------------------------------------------------------------
(* Local authoring *)

LocalKinds == {"startDraw", "draw", "endDraw", "clearCanvas"}

\* C24: while the connection handle is empty, pointer-down, pointer-move,
\* pointer-up and the clear control neither emit a frame nor change the local
\* surface or the local anchor, even for the active drawer
C24_NoInputWithoutHandle ==
  [][(ws = NULL /\ canvasWs = NULL /\ ev'.kind \in LocalKinds) =>
       /\ ev'.sent = << >>
       /\ surface' = surface
       /\ lastPoint' = lastPoint]_vars

\* the drawing phase is active in this (optional) session state
PhaseActive(gs) == gs # None /\ isDrawingPhaseActive(gs[1])

C27_WellFormedRuns ==
  [][(observer.on /\ conn = "open" /\ ev'.kind \in LocalKinds /\ ev'.sent # << >>) =>
       LET action == ev'.sent[1].payload.action IN
       /\ action = "start" => ~observer.open
       /\ action = "draw" => observer.open]_vars

\* C28: an observer that receives every DRAWING_DATA event of the drawer in
\* emission order has, after each event is applied, the same segments on its
\* surface as the drawer has on the local surface, also after "clear"
C28_ObserverSeesSameSurface ==
  [][(/\ observer.on /\ conn = "open"
      /\ ev'.kind \in LocalKinds /\ ev'.sent # << >>
      /\ observer.surface = surface) =>
       observer'.surface = surface']_vars

-----------------------------------------------------------------------------
(* The countdown and the session state *)

\* C30: whenever a tick source is active, its target expiry is the
\* timer_expires_at of the current session state, whichever frame
\* (GAME_STATE_UPDATE or GAME_OVER) last replaced the session state
C30_TickSourceFollowsState ==
  \A i \in intervals :
    /\ gameState # None
    /\ gameState[1].timer_expires_at = Some(i.expiresAt)

\* C36: a GAME_OVER frame changes only the session state and the chat log:
\* the stroke history, the buffered point, the pending word choice, the
\* active tick source and remaining stay as they were, so a running countdown
\* keeps ticking toward the expiry it was armed with
C36_GameOverLeavesTheRest ==
  [][(ev'.kind = "recv" /\ ev'.msg.type = "GAME_OVER") =>
       UNCHANGED <<drawingHistory, currentRemoteDrawingPoint, wordsToChoose,
                   intervals, timerIntervalRef, nextTimerId, timeLeft>>]_vars

\* a tick after the final state, of the countdown armed before it, that has
\* not reached 0 yet
C36_Witness ==
  /\ ev.kind = "tick"
  /\ gameState # None
  /\ gameState[1] \in GameOverPayloads
  /\ arming.armed
  /\ intervals # {}
  /\ \A i \in intervals : i.expiresAt = arming.expiresAt
  /\ timeLeft > 0

\* C40: a GAME_STATE_UPDATE whose timer_expires_at is the number 0 is handled
\* like a null expiry: the tick source is cancelled, remaining is set to 0 and
\* no new tick source is started
C40_ZeroExpiryDisarms ==
  [][(/\ ev'.kind = "recv" /\ ev'.msg.type = "GAME_STATE_UPDATE"
      /\ ev'.msg.payload.timer_expires_at = Some(0)) =>
       /\ timeLeft' = 0
       /\ intervals' = {}
       /\ timerIntervalRef' = None
       /\ nextTimerId' = nextTimerId]_vars

\* an expiry of 0 arrived in the middle of a countdown and stopped it
C40_Witness ==
  /\ ev.kind = "recv" /\ ev.msg.type = "GAME_STATE_UPDATE"
  /\ ev.msg.payload.timer_expires_at = Some(0)
  /\ ev.pre.armed
  /\ ev.pre.timeLeft > 0
  /\ timeLeft = 0
  /\ intervals = {}

====
